---- MODULE Spec2Model ----
(***************************************************************************)
(* A model of the splash peer-to-peer broadcast node (src/src/lib.rs) and  *)
(* of its host process (src/src/main.rs).                                  *)
(*                                                                         *)
(* The node is a builder (Splash::new, with_*, build) that spawns one      *)
(* event loop.  The loop selects among the submission queue, a discovery   *)
(* timer and the swarm's events, and emits node events on a bounded        *)
(* channel that the host consumes.                                         *)
(***************************************************************************)
EXTENDS Integers, Sequences, FiniteSets, TLC

(***************************************************************************)
(* Program constants.                                                      *)
(***************************************************************************)
MAX_MESSAGE_SIZE == 300 * 1024

\* tokio::sync::mpsc::channel::<Vec<u8>>(100)
SubmissionCapacity == 100

\* mpsc::channel(100) of SplashEvent
EventCapacity == 100

(***************************************************************************)
(* Bounds of the model.                                                    *)
(***************************************************************************)
\* broadcast_message calls in one behaviour
MaxCalls == 2
\* broadcast_message calls in one behaviour of the burst specification
MaxBurstCalls == 101
\* publishes that may fail in the burst specification
MaxBurstFailures == 1
\* inbound gossipsub messages
MaxInbound == 1
\* identify reports
MaxIdentify == 1
\* connections opened
MaxConnections == 1
\* messages whose id is computed
MaxIdCalls == 2
\* discovery timer ticks
MaxTicks == 1
\* clones of the node
MaxClones == 1
\* broadcast_message calls in one behaviour of the event stream specification
MaxEventCalls == 1
\* broadcast_message calls in one behaviour of the stall specification
MaxStallCalls == 51
\* connections opened in one behaviour of the metrics specification
MaxMetricConnections == 2
\* get_metrics calls
MaxReads == 1
\* Data items sent into the relay's channel
MaxWsItems == 3
\* the capacity of the relay's channel, which its creator chooses
WsCapacity == 2
\* the Sender handles of the relay's channel
NumWsSenders == 2

(***************************************************************************)
(* Byte strings.  A byte string is a run-length sequence of units; a unit  *)
(* is an ASCII byte ("a", "b"), the three bytes EF BF BD that encode the   *)
(* character U+FFFD ("fffd"), or the byte FF, which is valid nowhere in    *)
(* UTF-8 ("xff").  A Rust String/&str is a byte string with no "xff" unit. *)
(***************************************************************************)
Chunk(u, n) == [u |-> u, n |-> n]

UnitLen(u) == IF u = "fffd" THEN 3 ELSE 1

RECURSIVE ByteLen(_)
\* <[u8]>::len / str::len: the number of bytes
ByteLen(s) ==
    IF s = <<>> THEN 0
    ELSE Head(s).n * UnitLen(Head(s).u) + ByteLen(Tail(s))

RECURSIVE Normalise(_)
\* the canonical run-length form: no empty run, no two adjacent runs of one unit
Normalise(s) ==
    IF s = <<>> THEN <<>>
    ELSE IF Head(s).n = 0 THEN Normalise(Tail(s))
    ELSE LET rest == Normalise(Tail(s))
         IN  IF rest # <<>> /\ Head(rest).u = Head(s).u
             THEN <<Chunk(Head(s).u, Head(s).n + Head(rest).n)>> \o Tail(rest)
             ELSE <<Head(s)>> \o rest

\* String::from_utf8_lossy: every invalid byte becomes one U+FFFD character
from_utf8_lossy(bytes) ==
    Normalise([i \in DOMAIN bytes |->
        IF bytes[i].u = "xff" THEN Chunk("fffd", bytes[i].n) ELSE bytes[i]])

\* str::as_bytes: the bytes of a string are the string
as_bytes(message) == message

(***************************************************************************)
(* Splash::validate_message                                                *)
(***************************************************************************)
validate_message_off_by_one(message) ==
    IF ByteLen(message) >= MAX_MESSAGE_SIZE THEN "MessageTooLarge" ELSE "Ok"

validate_message(message) ==
    IF ByteLen(message) > MAX_MESSAGE_SIZE THEN "MessageTooLarge" ELSE "Ok"

(***************************************************************************)
(* Multiaddresses: a sequence of protocol components.                      *)
(***************************************************************************)
Ip4(a, b, c, d) == [p |-> "Ip4", a |-> <<a, b, c, d>>]
Ip6(segments) == [p |-> "Ip6", a |-> segments]
Tcp(port) == [p |-> "Tcp", a |-> <<port>>]
P2p(peer) == [p |-> "P2p", a |-> <<peer>>]
P2pCircuit == [p |-> "P2pCircuit", a |-> <<>>]

\* Ipv4Addr::is_loopback: 127.0.0.0/8
Ipv4IsLoopback(a) == a[1] = 127

\* Ipv4Addr::is_private: 10.0.0.0/8, 172.16.0.0/12, 192.168.0.0/16
Ipv4IsPrivate(a) ==
    \/ a[1] = 10
    \/ a[1] = 172 /\ a[2] >= 16 /\ a[2] <= 31
    \/ a[1] = 192 /\ a[2] = 168

\* Ipv6Addr::is_loopback: ::1
Ipv6IsLoopback(a) == a = <<0, 0, 0, 0, 0, 0, 0, 1>>

is_non_global_loopback_only(addr) ==
    \E i \in DOMAIN addr :
        CASE addr[i].p = "Ip4" -> Ipv4IsLoopback(addr[i].a)
          [] addr[i].p = "Ip6" -> Ipv6IsLoopback(addr[i].a)
          [] OTHER -> FALSE

\* the is_non_global closure of the identify arm
is_non_global(addr) ==
    \E i \in DOMAIN addr :
        CASE addr[i].p = "Ip4" -> Ipv4IsLoopback(addr[i].a) \/ Ipv4IsPrivate(addr[i].a)
          [] addr[i].p = "Ip6" -> Ipv6IsLoopback(addr[i].a)
          [] OTHER -> FALSE

\* `let Some(Protocol::P2p(peer_id)) = addr.iter().last()`
EndsInPeerId(addr) == addr # <<>> /\ addr[Len(addr)].p = "P2p"

LastPeerId(addr) == addr[Len(addr)].a[1]

(***************************************************************************)
(* Inputs.                                                                 *)
(***************************************************************************)
\* the peer identity of this node, and the remote peers
LocalPeer == 0
RemotePeers == {1, 2}

NumProducers == 2
Producers == 1 .. NumProducers

\* "offer1xyz", 9 bytes
Offer == <<Chunk("a", 9)>>
EmptyMessage == <<>>
AtLimit == <<Chunk("a", MAX_MESSAGE_SIZE)>>
\* valid text of exactly the limit that contains the character U+FFFD
AtLimitWithReplacementChar == <<Chunk("a", MAX_MESSAGE_SIZE - 3), Chunk("fffd", 1)>>
OverLimit == <<Chunk("a", MAX_MESSAGE_SIZE + 1)>>

\* the &str arguments of broadcast_message
Strings == {Offer, EmptyMessage, AtLimit, AtLimitWithReplacementChar, OverLimit}

\* one invalid byte
InvalidByte == <<Chunk("xff", 1)>>
\* MAX_MESSAGE_SIZE / 3 invalid bytes: exactly the limit once decoded
InvalidThird == <<Chunk("xff", 100 * 1024)>>
\* one more: over the limit once decoded
InvalidOverThird == <<Chunk("xff", 100 * 1024 + 1)>>
\* raw length exactly the limit, one invalid byte
AtLimitOneInvalid == <<Chunk("a", MAX_MESSAGE_SIZE - 1), Chunk("xff", 1)>>

\* the payloads the gossipsub engine delivers: its max_transmit_size is
\* MAX_MESSAGE_SIZE, so no payload above it arrives
InboundPayloads ==
    {b \in {Offer, AtLimit, InvalidByte, InvalidThird, InvalidOverThird,
            AtLimitOneInvalid, OverLimit} : ByteLen(b) <= MAX_MESSAGE_SIZE}

\* sequence numbers of gossipsub messages
SequenceNumbers == {1, 2}

\* gossipsub::PublishError
PublishErrors == {"InsufficientPeers"}
PublishOutcomes == {"Ok"} \cup PublishErrors

PublicV4 == <<Ip4(8, 8, 8, 8), Tcp(4001)>>
LoopbackV4 == <<Ip4(127, 0, 0, 1), Tcp(4001)>>
Private10 == <<Ip4(10, 1, 2, 3), Tcp(4001)>>
Private172Low == <<Ip4(172, 16, 0, 1), Tcp(4001)>>
Private172High == <<Ip4(172, 31, 255, 1), Tcp(4001)>>
Public172Below == <<Ip4(172, 15, 0, 1), Tcp(4001)>>
Public172Above == <<Ip4(172, 32, 0, 1), Tcp(4001)>>
Private192 == <<Ip4(192, 168, 1, 1), Tcp(4001)>>
Public192 == <<Ip4(192, 169, 1, 1), Tcp(4001)>>
PublicV6 == <<Ip6(<<8193, 3512, 0, 0, 0, 0, 0, 1>>), Tcp(4001)>>
LoopbackV6 == <<Ip6(<<0, 0, 0, 0, 0, 0, 0, 1>>), Tcp(4001)>>
UnspecifiedV6 == <<Ip6(<<0, 0, 0, 0, 0, 0, 0, 0>>), Tcp(0)>>
UnspecifiedV4 == <<Ip4(0, 0, 0, 0), Tcp(0)>>
\* a relayed address whose second hop is private
RelayedPrivate == <<Ip4(8, 8, 8, 8), Tcp(4001), P2p(2), P2pCircuit, Ip4(10, 0, 0, 1)>>
\* an address with no ip component
PeerOnly == <<P2p(2)>>

\* the self-reported listen addresses of identify::Info
ListenAddrs ==
    {PublicV4, LoopbackV4, Private10, Private172Low, Private172High, Public172Below,
     Public172Above, Private192, Public192, PublicV6, LoopbackV6, RelayedPrivate, PeerOnly}

\* the address a peer observed for this node
ObservedAddrs == {PublicV4, Private10}

\* with_known_peers arguments and resolver results
BootstrapLists ==
    { <<PublicV4 \o <<P2p(1)>>>>,
      <<LoopbackV4 \o <<P2p(1)>>>>,
      <<PublicV4 \o <<P2p(1)>>, Private192 \o <<P2p(2)>>>>,
      <<PublicV4>>,
      <<PublicV4 \o <<P2p(1)>>, PublicV6>>,
      <<PublicV4 \o <<P2p(1), P2pCircuit>>>>,
      <<PublicV4 \o <<P2p(LocalPeer)>>>> }

\* results of dns::resolve_peers_from_dns
DnsOk(peers) == [ok |-> TRUE, peers |-> peers]
DnsErr == [ok |-> FALSE, peers |-> <<>>]
DnsResults == {DnsErr, DnsOk(<<>>)} \cup {DnsOk(l) : l \in BootstrapLists}

\* with_listen_addresses arguments
ListenLists == { <<PublicV4>>, <<PublicV4, PeerOnly>> }

(***************************************************************************)
(* State.                                                                  *)
(***************************************************************************)
VARIABLES
    phase,             \* where build is: "new", "resolved", "swarm", "listening",
                       \* "running"; or how it ended: "failed", "panicked"
    build_error,       \* the error build returned, "" if none
    known_peers,       \* Splash.known_peers
    listen_addresses,  \* Splash.listen_addresses
    network_name,      \* Splash.network_name
    clones,            \* the clones of the node: their fields, and how their build ended
    receiver,          \* who holds the submission receiver: "node", "loop", "dropped"
    dns_calls,         \* calls of dns::resolve_peers_from_dns
    routing,           \* kademlia's routing table: a set of [peer, addr]
    listeners,         \* the addresses swarm.listen_on was called with, in order
    topic,             \* the gossipsub topic subscribed, "" if none
    kad_protocol,      \* the protocol name of the kademlia behaviour, "" if none
    id_protocol,       \* the protocol name of the identify behaviour, "" if none
    announced,         \* listeners whose NewListenAddr event the loop has handled
    queue,             \* the submission channel's buffer
    waiters,           \* producers suspended in send, in arrival order
    prod,              \* per producer: its broadcast_message call in progress
    call_log,          \* the broadcast_message calls and what each returned
    enqueued,          \* history: the payloads pushed into the submission channel
    publish_log,       \* history: the gossipsub.publish calls and their results
    events,            \* the event channel's buffer
    consumer,          \* the event receiver: "alive" or "dropped"
    delivered,         \* history: the events the host received
    pending,           \* the rest of the loop's current handler, blocked on a send
    discarded,         \* history: event sends that failed because the receiver is gone
    metrics,           \* main.rs: the host's Metrics, its four counters
    reader,            \* the get_metrics call in progress: the values it has loaded
    replies,           \* history: the MetricsData the get_metrics calls returned
    ws_channel,        \* ws/channel.rs: the buffer of the channel transmit receives from
    ws_senders,        \* the Sender handles of that channel not yet dropped
    ws_pc,             \* transmit's select: "select"; "recv_disabled" once recv gave
                       \* None in this iteration; "returned" had transmit returned
    buffer,            \* transmit's `buffer`
    ws_received,       \* history: the items receiver.recv() gave transmit
    ws_sent,           \* history: the texts server.send was called with
    ws_last,           \* the branch of the select transmit ran last, "" at first
    validations,       \* history: report_message_validation_result calls
    conns,             \* open connections per remote peer
    opened,            \* connections opened so far
    external,          \* swarm.add_external_address calls
    identify_log,      \* history: the identify reports handled
    inbound_log,       \* history: the gossipsub messages handled
    lookups,           \* kademlia.get_closest_peers calls
    id_log             \* history: the messages gossipsub engines computed the id of

configVars == <<known_peers, listen_addresses, network_name, clones>>
buildVars == <<phase, build_error, dns_calls, listeners, topic, kad_protocol, id_protocol>>
submitVars == <<queue, waiters, prod, call_log, enqueued, receiver>>
wsVars == <<ws_channel, ws_senders, ws_pc, buffer, ws_received, ws_sent, ws_last>>
hostVars == <<metrics, reader, replies, wsVars>>
eventVars == <<events, consumer, delivered, pending, discarded, hostVars>>
swarmVars == <<publish_log, validations, conns, opened, external, identify_log,
              inbound_log, lookups,
              announced, id_log>>

vars == <<configVars, buildVars, submitVars, eventVars, swarmVars, routing>>

Idle == [pc |-> "idle", msg |-> <<>>, call |-> 0]

\* metrics.rs, Metrics::new
Metrics_new ==
    [peers |-> 0, messages_broadcasted |-> 0, messages_received |-> 0,
     total_connections |-> 0]

\* no get_metrics call is in progress
NoCall == [loaded |-> <<>>, at |-> 0]

\* Splash::new
Init ==
    /\ phase = "new"
    /\ build_error = ""
    /\ known_peers = <<>>
    /\ listen_addresses = <<>>
    /\ network_name = "splash"
    /\ clones = <<>>
    /\ receiver = "node"
    /\ dns_calls = 0
    /\ routing = {}
    /\ listeners = <<>>
    /\ topic = ""
    /\ kad_protocol = ""
    /\ id_protocol = ""
    /\ announced = 0
    /\ queue = <<>>
    /\ waiters = <<>>
    /\ prod = [p \in Producers |-> Idle]
    /\ call_log = <<>>
    /\ enqueued = <<>>
    /\ publish_log = <<>>
    /\ events = <<>>
    /\ consumer = "alive"
    /\ delivered = <<>>
    /\ pending = <<>>
    /\ discarded = 0
    /\ metrics = Metrics_new
    /\ reader = NoCall
    /\ replies = <<>>
    /\ ws_channel = <<>>
    /\ ws_senders = NumWsSenders
    /\ ws_pc = "select"
    /\ buffer = <<>>
    /\ ws_received = <<>>
    /\ ws_sent = <<>>
    /\ ws_last = ""
    /\ validations = <<>>
    /\ conns = [p \in RemotePeers |-> 0]
    /\ opened = 0
    /\ external = {}
    /\ identify_log = <<>>
    /\ inbound_log = <<>>
    /\ lookups = 0
    /\ id_log = <<>>

(***************************************************************************)
(* The builder.                                                            *)
(***************************************************************************)
with_known_peers(peers) ==
    /\ phase = "new"
    /\ known_peers' = peers
    /\ UNCHANGED <<listen_addresses, network_name, clones, buildVars, submitVars,
                   eventVars, swarmVars, routing>>

with_listen_addresses(addrs) ==
    /\ phase = "new"
    /\ listen_addresses' = addrs
    /\ UNCHANGED <<known_peers, network_name, clones, buildVars, submitVars, eventVars,
                   swarmVars, routing>>

with_testnet ==
    /\ phase = "new"
    /\ network_name' = "splash-testnet"
    /\ UNCHANGED <<known_peers, listen_addresses, clones, buildVars, submitVars,
                   eventVars, swarmVars, routing>>

\* build returns Err or unwinds: `self` is dropped and with it the submission
\* receiver, so the channel closes, its buffer is freed and every suspended send
\* returns SendError
DropNode ==
    /\ receiver' = "dropped"
    /\ queue' = <<>>
    /\ waiters' = <<>>
    /\ prod' = [p \in Producers |-> Idle]
    /\ call_log' = [i \in DOMAIN call_log |->
          IF call_log[i].ret = "Pending"
          THEN [call_log[i] EXCEPT !.ret = "SendError"] ELSE call_log[i]]
    /\ UNCHANGED enqueued

BuildFails(error) ==
    /\ phase' = "failed"
    /\ build_error' = error
    /\ DropNode

BuildResolve_always(results) ==
    /\ phase = "new"
    /\ dns_calls' = dns_calls + 1
    /\ \E r \in results :
         IF ~r.ok
         THEN /\ BuildFails("Failed to resolve peers from DNS")
              /\ UNCHANGED known_peers
         ELSE /\ known_peers' = r.peers
              /\ phase' = "resolved"
              /\ UNCHANGED <<build_error, submitVars>>
    /\ UNCHANGED <<listen_addresses, network_name, clones, listeners, topic,
                   kad_protocol, id_protocol, eventVars, swarmVars, routing>>

\* build, lines 140-145: resolve the bootstrap peers when none is configured
BuildResolve(results) ==
    /\ phase = "new"
    /\ IF known_peers = <<>>
       THEN /\ dns_calls' = dns_calls + 1
            /\ \E r \in results :
                 IF ~r.ok
                 THEN /\ BuildFails("Failed to resolve peers from DNS")
                      /\ UNCHANGED known_peers
                 ELSE /\ known_peers' = r.peers
                      /\ phase' = "resolved"
                      /\ UNCHANGED <<build_error, submitVars>>
       ELSE /\ phase' = "resolved"
            /\ UNCHANGED <<dns_calls, known_peers, build_error, submitVars>>
    /\ UNCHANGED <<listen_addresses, network_name, clones, listeners, topic,
                   kad_protocol, id_protocol, eventVars, swarmVars, routing>>

\* kad::Behaviour::add_address: the routing table holds no entry for the local key
kademlia_add_address(table, peer, addr) ==
    IF peer = LocalPeer THEN table ELSE table \cup {[peer |-> peer, addr |-> addr]}

RECURSIVE SeedBootstrap_skip_unidentified(_, _)
SeedBootstrap_skip_unidentified(peers, table) ==
    IF peers = <<>> THEN [ok |-> TRUE, table |-> table]
    ELSE IF ~EndsInPeerId(Head(peers))
    THEN SeedBootstrap_skip_unidentified(Tail(peers), table)
    ELSE SeedBootstrap_skip_unidentified(Tail(peers),
             kademlia_add_address(table, LastPeerId(Head(peers)), Head(peers)))

RECURSIVE SeedBootstrap(_, _)
\* build, lines 194-199: register every bootstrap address against its peer id
SeedBootstrap(peers, table) ==
    IF peers = <<>> THEN [ok |-> TRUE, table |-> table]
    ELSE IF ~EndsInPeerId(Head(peers)) THEN [ok |-> FALSE, table |-> table]
    ELSE SeedBootstrap(Tail(peers),
                       kademlia_add_address(table, LastPeerId(Head(peers)), Head(peers)))

\* build, lines 147-218: the swarm and its behaviour
BuildBehaviour ==
    /\ phase = "resolved"
    /\ LET seeded == SeedBootstrap(known_peers, {})
       IN  IF ~seeded.ok
           THEN /\ BuildFails("Expect peer multiaddr to contain peer ID.")
                /\ UNCHANGED <<routing, kad_protocol, id_protocol>>
           ELSE IF seeded.table = {}
           THEN \* kademlia.bootstrap() is Err(NoKnownPeers) and is unwrapped
                /\ phase' = "panicked"
                /\ DropNode
                /\ UNCHANGED <<build_error, routing, kad_protocol, id_protocol>>
           ELSE /\ phase' = "swarm"
                /\ routing' = seeded.table
                /\ kad_protocol' = "/" \o network_name \o "/kad/1"
                /\ id_protocol' = "/" \o network_name \o "/id/1"
                /\ UNCHANGED <<build_error, submitVars>>
    /\ UNCHANGED <<configVars, dns_calls, listeners, topic, eventVars, swarmVars>>

\* the tcp transport listens on /ip4|ip6/../tcp/..
TcpSupports(addr) ==
    /\ Len(addr) = 2
    /\ addr[1].p \in {"Ip4", "Ip6"}
    /\ addr[2].p = "Tcp"

RECURSIVE ListenOnAll(_, _)
\* swarm.listen_on(addr)? for each address, in order
ListenOnAll(addrs, bound) ==
    IF addrs = <<>> THEN [ok |-> TRUE, bound |-> bound]
    ELSE IF ~TcpSupports(Head(addrs)) THEN [ok |-> FALSE, bound |-> bound]
    ELSE ListenOnAll(Tail(addrs), Append(bound, Head(addrs)))

\* build, lines 220-228
BuildListen ==
    /\ phase = "swarm"
    /\ LET addrs == IF listen_addresses # <<>> THEN listen_addresses
                    ELSE <<UnspecifiedV4, UnspecifiedV6>>
           r == ListenOnAll(addrs, <<>>)
       IN  /\ listeners' = r.bound
           /\ IF r.ok
              THEN /\ phase' = "listening"
                   /\ UNCHANGED <<build_error, submitVars>>
              ELSE BuildFails("Multiaddr is not supported")
    /\ UNCHANGED <<configVars, dns_calls, topic, kad_protocol, id_protocol, eventVars,
                   swarmVars, routing>>

(***************************************************************************)
(* Node events.                                                            *)
(***************************************************************************)
Initialized(peer) == [kind |-> "Initialized", peer |-> peer]
PeerConnected(peer) == [kind |-> "PeerConnected", peer |-> peer]
PeerDisconnected(peer) == [kind |-> "PeerDisconnected", peer |-> peer]
MessageReceived(text) == [kind |-> "MessageReceived", text |-> text]
NewListenAddress(address) == [kind |-> "NewListenAddress", address |-> address]
MessageBroadcasted(text) == [kind |-> "MessageBroadcasted", text |-> text]
MessageBroadcastFailed(error) == [kind |-> "MessageBroadcastFailed", error |-> error]

BuildSpawn_default_topic ==
    /\ phase = "listening"
    /\ receiver = "node"
    /\ topic' = "/splash/messages/1"
    /\ receiver' = "loop"
    /\ events' = Append(events, Initialized(LocalPeer))
    /\ phase' = "running"
    /\ UNCHANGED <<configVars, build_error, dns_calls, listeners, kad_protocol,
                   id_protocol, queue, waiters, prod, call_log, enqueued, consumer,
                   delivered, pending, discarded, hostVars, swarmVars, routing>>

BuildSpawn_without_initialized ==
    /\ phase = "listening"
    /\ receiver = "node"
    /\ topic' = "/" \o network_name \o "/messages/1"
    /\ receiver' = "loop"
    /\ phase' = "running"
    /\ UNCHANGED <<configVars, build_error, dns_calls, listeners, kad_protocol,
                   id_protocol, queue, waiters, prod, call_log, enqueued, eventVars,
                   swarmVars, routing>>

\* build, lines 230-250: subscribe the topic, take the receiver, send Initialized
\* and spawn the loop
BuildSpawn ==
    /\ phase = "listening"
    /\ receiver = "node"
    /\ topic' = "/" \o network_name \o "/messages/1"
    /\ receiver' = "loop"
    /\ events' = Append(events, Initialized(LocalPeer))
    /\ phase' = "running"
    /\ UNCHANGED <<configVars, build_error, dns_calls, listeners, kad_protocol,
                   id_protocol, queue, waiters, prod, call_log, enqueued, consumer,
                   delivered, pending, discarded, hostVars, swarmVars, routing>>

(***************************************************************************)
(* The submission channel and broadcast_message.                           *)
(***************************************************************************)
Granted == {p \in Producers : prod[p].pc = "granted"}

\* the permits of the bounded channel that no buffered payload and no woken
\* sender holds
FreePermits == SubmissionCapacity - Len(queue) - Cardinality(Granted)

Returned(message, ret) == [msg |-> message, ret |-> ret, suspended |-> ret = "Pending"]

broadcast_message_unvalidated(p, message, limit) ==
    /\ prod[p].pc = "idle"
    /\ Len(call_log) < limit
    /\ receiver # "dropped"
    /\ FreePermits > 0
    /\ queue' = Append(queue, as_bytes(message))
    /\ enqueued' = Append(enqueued, as_bytes(message))
    /\ call_log' = Append(call_log, Returned(message, "Ok"))
    /\ UNCHANGED <<prod, waiters, receiver>>
    /\ UNCHANGED <<configVars, buildVars, eventVars, swarmVars, routing>>

broadcast_message_try_send(p, message, limit) ==
    /\ prod[p].pc = "idle"
    /\ Len(call_log) < limit
    /\ IF validate_message(message) # "Ok"
       THEN /\ call_log' = Append(call_log, Returned(message, validate_message(message)))
            /\ UNCHANGED <<queue, waiters, prod, enqueued>>
       ELSE IF receiver = "dropped" \/ FreePermits <= 0
       THEN /\ call_log' = Append(call_log, Returned(message, "SendError"))
            /\ UNCHANGED <<queue, waiters, prod, enqueued>>
       ELSE /\ queue' = Append(queue, as_bytes(message))
            /\ enqueued' = Append(enqueued, as_bytes(message))
            /\ call_log' = Append(call_log, Returned(message, "Ok"))
            /\ UNCHANGED <<waiters, prod>>
    /\ UNCHANGED <<receiver, configVars, buildVars, eventVars, swarmVars, routing>>

\* Splash::broadcast_message, called by producer p, up to where it returns or
\* suspends in send
broadcast_message(p, message, limit) ==
    /\ prod[p].pc = "idle"
    /\ Len(call_log) < limit
    /\ IF validate_message(message) # "Ok"
       THEN /\ call_log' = Append(call_log, Returned(message, validate_message(message)))
            /\ UNCHANGED <<queue, waiters, prod, enqueued>>
       ELSE IF receiver = "dropped"
       THEN /\ call_log' = Append(call_log, Returned(message, "SendError"))
            /\ UNCHANGED <<queue, waiters, prod, enqueued>>
       ELSE IF FreePermits > 0
       THEN /\ queue' = Append(queue, as_bytes(message))
            /\ enqueued' = Append(enqueued, as_bytes(message))
            /\ call_log' = Append(call_log, Returned(message, "Ok"))
            /\ UNCHANGED <<waiters, prod>>
       ELSE /\ call_log' = Append(call_log, Returned(message, "Pending"))
            /\ prod' = [prod EXCEPT ![p] = [pc |-> "waiting", msg |-> as_bytes(message),
                                            call |-> Len(call_log) + 1]]
            /\ waiters' = Append(waiters, p)
            /\ UNCHANGED <<queue, enqueued>>
    /\ UNCHANGED <<receiver, configVars, buildVars, eventVars, swarmVars, routing>>

\* the rest of broadcast_message for a producer whose send was handed a permit:
\* the payload is pushed and the call returns Ok
broadcast_message_resume(p) ==
    /\ prod[p].pc = "granted"
    /\ queue' = Append(queue, prod[p].msg)
    /\ enqueued' = Append(enqueued, prod[p].msg)
    /\ call_log' = [call_log EXCEPT ![prod[p].call].ret = "Ok"]
    /\ prod' = [prod EXCEPT ![p] = Idle]
    /\ UNCHANGED <<waiters, receiver, configVars, buildVars, eventVars, swarmVars,
                   routing>>

(***************************************************************************)
(* Clones of the node.                                                     *)
(***************************************************************************)
clone_sharing_receiver(peers, addrs, name) ==
    [known_peers |-> peers, listen_addresses |-> addrs, network_name |-> name,
     receiver |-> "node", built |-> ""]

\* Clone::clone: the fields, a clone of the sender, and no receiver
clone(peers, addrs, name) ==
    [known_peers |-> peers, listen_addresses |-> addrs, network_name |-> name,
     receiver |-> "none", built |-> ""]

\* how build ends on a Splash value that is not the node: the steps of build in
\* their order, up to the take of the submission receiver; r is the resolver's
\* result
BuildResult(splash, r) ==
    IF splash.known_peers = <<>> /\ ~r.ok THEN "Failed to resolve peers from DNS"
    ELSE LET peers == IF splash.known_peers = <<>> THEN r.peers ELSE splash.known_peers
             seeded == SeedBootstrap(peers, {})
             addrs == IF splash.listen_addresses # <<>> THEN splash.listen_addresses
                      ELSE <<UnspecifiedV4, UnspecifiedV6>>
         IN  IF ~seeded.ok THEN "Expect peer multiaddr to contain peer ID."
             ELSE IF seeded.table = {} THEN "panicked"
             ELSE IF ~ListenOnAll(addrs, <<>>).ok THEN "Multiaddr is not supported"
             ELSE IF splash.receiver = "none" THEN "Submission receiver already consumed"
             ELSE "Ok"

\* node.clone(), on the node before build or on the node that build returned
Clone ==
    /\ phase \in {"new", "running"}
    /\ Len(clones) < MaxClones
    /\ clones' = Append(clones, clone(known_peers, listen_addresses, network_name))
    /\ UNCHANGED <<known_peers, listen_addresses, network_name, buildVars, submitVars,
                   eventVars, swarmVars, routing>>

\* with_testnet on a clone
clone_with_testnet(c) ==
    /\ c \in DOMAIN clones
    /\ clones[c].built = ""
    /\ clones' = [clones EXCEPT ![c].network_name = "splash-testnet"]
    /\ UNCHANGED <<known_peers, listen_addresses, network_name, buildVars, submitVars,
                   eventVars, swarmVars, routing>>

\* with_known_peers on a clone
clone_with_known_peers(c, peers) ==
    /\ c \in DOMAIN clones
    /\ clones[c].built = ""
    /\ clones' = [clones EXCEPT ![c].known_peers = peers]
    /\ UNCHANGED <<known_peers, listen_addresses, network_name, buildVars, submitVars,
                   eventVars, swarmVars, routing>>

\* build on a clone: it consumes the clone
clone_build(c, results) ==
    /\ c \in DOMAIN clones
    /\ clones[c].built = ""
    /\ \E r \in results : clones' = [clones EXCEPT ![c].built = BuildResult(clones[c], r)]
    /\ UNCHANGED <<known_peers, listen_addresses, network_name, buildVars, submitVars,
                   eventVars, swarmVars, routing>>

\* broadcast_message on a clone: its sender is a clone of the node's sender
clone_broadcast_message(c, p, message, limit) ==
    /\ c \in DOMAIN clones
    /\ clones[c].built = ""
    /\ broadcast_message(p, message, limit)

(***************************************************************************)
(* The event loop.                                                         *)
(***************************************************************************)
EmitOp(ev) == [op |-> "emit", ev |-> ev]
ReportOp(data, source, acceptance) ==
    [op |-> "report", data |-> data, source |-> source, acceptance |-> acceptance]

RECURSIVE RunOps_try_send(_, _, _)
RunOps_try_send(ops, evs, vals) ==
    IF ops = <<>> THEN [events |-> evs, validations |-> vals, pending |-> <<>>]
    ELSE IF Head(ops).op = "report"
    THEN RunOps_try_send(Tail(ops), evs,
                Append(vals, [data |-> Head(ops).data, source |-> Head(ops).source,
                              acceptance |-> Head(ops).acceptance]))
    ELSE IF consumer = "dropped" \/ Len(evs) >= EventCapacity
    THEN RunOps_try_send(Tail(ops), evs, vals)
    ELSE RunOps_try_send(Tail(ops), Append(evs, Head(ops).ev), vals)

RECURSIVE RunOps_closed_unnoticed(_, _, _)
RunOps_closed_unnoticed(ops, evs, vals) ==
    IF ops = <<>> THEN [events |-> evs, validations |-> vals, pending |-> <<>>]
    ELSE IF Head(ops).op = "report"
    THEN RunOps_closed_unnoticed(Tail(ops), evs,
                Append(vals, [data |-> Head(ops).data, source |-> Head(ops).source,
                              acceptance |-> Head(ops).acceptance]))
    ELSE IF Len(evs) < EventCapacity
    THEN RunOps_closed_unnoticed(Tail(ops), Append(evs, Head(ops).ev), vals)
    ELSE [events |-> evs, validations |-> vals, pending |-> ops]

RECURSIVE RunOps(_, _, _)
\* runs the steps of a handler until it ends or a send finds the event channel
\* full.  `event_tx.send(..).await.ok()`: the event is buffered; with the
\* receiver gone the send fails at once and the error is discarded
RunOps(ops, evs, vals) ==
    IF ops = <<>> THEN [events |-> evs, validations |-> vals, pending |-> <<>>]
    ELSE IF Head(ops).op = "report"
    THEN RunOps(Tail(ops), evs,
                Append(vals, [data |-> Head(ops).data, source |-> Head(ops).source,
                              acceptance |-> Head(ops).acceptance]))
    ELSE IF consumer = "dropped" THEN RunOps(Tail(ops), evs, vals)
    ELSE IF Len(evs) < EventCapacity
    THEN RunOps(Tail(ops), Append(evs, Head(ops).ev), vals)
    ELSE [events |-> evs, validations |-> vals, pending |-> ops]

Handle(ops) ==
    LET r == RunOps(ops, events, validations)
    IN  /\ events' = r.events
        /\ validations' = r.validations
        /\ pending' = r.pending
        /\ discarded' = IF consumer = "dropped"
                        THEN discarded + Len(SelectSeq(ops, LAMBDA o : o.op = "emit"))
                        ELSE discarded
        /\ UNCHANGED <<consumer, delivered, hostVars>>

\* the loop is at its select
AtSelect == phase = "running" /\ pending = <<>>

SubmissionOps_either(message, outcome) ==
    IF outcome # "Ok" THEN <<EmitOp(MessageBroadcastFailed(outcome))>>
    ELSE <<EmitOp(MessageBroadcasted(from_utf8_lossy(message)))>>

\* lines 255-259: what the submission branch emits after gossipsub.publish
SubmissionOps(message, outcome) ==
    (IF outcome # "Ok" THEN <<EmitOp(MessageBroadcastFailed(outcome))>> ELSE <<>>)
    \o <<EmitOp(MessageBroadcasted(from_utf8_lossy(message)))>>

Dequeue_lifo(q) == [message |-> q[Len(q)], rest |-> SubSeq(q, 1, Len(q) - 1)]

\* Receiver::recv: the oldest buffered payload
Dequeue(q) == [message |-> Head(q), rest |-> Tail(q)]

\* lines 253-260: `Some(message) = submission_receiver.recv()`
LoopSubmission(outcomes) ==
    /\ AtSelect
    /\ queue # <<>>
    /\ LET d == Dequeue(queue)
       IN  /\ queue' = d.rest
           /\ \E outcome \in outcomes :
                /\ publish_log' = Append(publish_log,
                                         [data |-> d.message, result |-> outcome])
                /\ Handle(SubmissionOps(d.message, outcome))
    \* the freed permit goes to the longest-suspended sender
    /\ IF waiters # <<>>
       THEN /\ prod' = [prod EXCEPT ![Head(waiters)].pc = "granted"]
            /\ waiters' = Tail(waiters)
       ELSE UNCHANGED <<prod, waiters>>
    /\ UNCHANGED <<call_log, enqueued, receiver, configVars, buildVars, conns, opened,
                   external, identify_log, inbound_log, lookups, announced, routing, id_log>>

\* lines 261-263: the discovery timer
LoopDiscoveryTick ==
    /\ AtSelect
    /\ lookups < MaxTicks
    /\ lookups' = lookups + 1
    /\ UNCHANGED <<configVars, buildVars, submitVars, eventVars, publish_log,
                   validations, conns, opened, external, identify_log, inbound_log,
                   announced,
                   routing, id_log>>

\* lines 265-267
ConnectionEstablishedUpTo(peer, limit) ==
    /\ AtSelect
    /\ opened < limit
    /\ opened' = opened + 1
    /\ conns' = [conns EXCEPT ![peer] = @ + 1]
    /\ Handle(<<EmitOp(PeerConnected(peer))>>)
    /\ UNCHANGED <<configVars, buildVars, submitVars, publish_log, external,
                   identify_log, inbound_log, lookups, announced, routing, id_log>>

ConnectionEstablished(peer) == ConnectionEstablishedUpTo(peer, MaxConnections)

\* lines 268-270
ConnectionClosed(peer) ==
    /\ AtSelect
    /\ conns[peer] > 0
    /\ conns' = [conns EXCEPT ![peer] = @ - 1]
    /\ Handle(<<EmitOp(PeerDisconnected(peer))>>)
    /\ UNCHANGED <<configVars, buildVars, submitVars, publish_log, opened, external,
                   identify_log, inbound_log, lookups, announced, routing, id_log>>

InboundOps_event_on_reject(data, source) ==
    LET msg_str == from_utf8_lossy(data)
    IN  IF validate_message(msg_str) = "Ok"
        THEN <<EmitOp(MessageReceived(msg_str)), ReportOp(data, source, "Accept")>>
        ELSE <<EmitOp(MessageReceived(msg_str)), ReportOp(data, source, "Reject")>>

\* lines 276-287: decode the payload, validate the text, emit and report
InboundOps(data, source) ==
    LET msg_str == from_utf8_lossy(data)
    IN  IF validate_message(msg_str) = "Ok"
        THEN <<EmitOp(MessageReceived(msg_str)), ReportOp(data, source, "Accept")>>
        ELSE <<ReportOp(data, source, "Reject")>>

\* lines 271-288: gossipsub::Event::Message
GossipsubMessage(source, data) ==
    /\ AtSelect
    /\ Len(inbound_log) < MaxInbound
    /\ inbound_log' = Append(inbound_log, [source |-> source, data |-> data])
    /\ Handle(InboundOps(data, source))
    /\ UNCHANGED <<configVars, buildVars, submitVars, publish_log, conns, opened,
                   external, identify_log, lookups, announced, routing, id_log>>

RECURSIVE RegisterListenAddrs_unfiltered(_, _, _)
RegisterListenAddrs_unfiltered(table, peer, addrs) ==
    IF addrs = <<>> THEN table
    ELSE RegisterListenAddrs_unfiltered(
             kademlia_add_address(table, peer, Head(addrs)), peer, Tail(addrs))

RECURSIVE RegisterListenAddrs(_, _, _)
\* lines 290-304: `for addr in listen_addrs`
RegisterListenAddrs(table, peer, addrs) ==
    IF addrs = <<>> THEN table
    ELSE IF is_non_global(Head(addrs))
    THEN RegisterListenAddrs(table, peer, Tail(addrs))
    ELSE RegisterListenAddrs(kademlia_add_address(table, peer, Head(addrs)), peer,
                             Tail(addrs))

IdentifyReceived_external_if_registered(peer, listen_addrs, observed_addr) ==
    /\ AtSelect
    /\ Len(identify_log) < MaxIdentify
    /\ identify_log' = Append(identify_log, [peer |-> peer, listen_addrs |-> listen_addrs,
                                              observed_addr |-> observed_addr])
    /\ routing' = RegisterListenAddrs(routing, peer, listen_addrs)
    /\ external' = IF \E i \in DOMAIN listen_addrs : ~is_non_global(listen_addrs[i])
                   THEN external \cup {observed_addr} ELSE external
    /\ UNCHANGED <<configVars, buildVars, submitVars, eventVars, publish_log,
                   validations, conns, opened, inbound_log, lookups, announced, id_log>>

\* lines 289-309: identify::Event::Received
IdentifyReceived(peer, listen_addrs, observed_addr) ==
    /\ AtSelect
    /\ Len(identify_log) < MaxIdentify
    /\ identify_log' = Append(identify_log, [peer |-> peer, listen_addrs |-> listen_addrs,
                                              observed_addr |-> observed_addr])
    /\ routing' = RegisterListenAddrs(routing, peer, listen_addrs)
    /\ external' = external \cup {observed_addr}
    /\ UNCHANGED <<configVars, buildVars, submitVars, eventVars, publish_log,
                   validations, conns, opened, inbound_log, lookups, announced, id_log>>

\* lines 310-312: SwarmEvent::NewListenAddr, once per listener
NewListenAddr ==
    /\ AtSelect
    /\ announced < Len(listeners)
    /\ announced' = announced + 1
    /\ Handle(<<EmitOp(NewListenAddress(listeners[announced + 1]))>>)
    /\ UNCHANGED <<configVars, buildVars, submitVars, publish_log, conns, opened,
                   external, identify_log, inbound_log, lookups, routing, id_log>>

\* gossipsub::Message: the fields a message id function is given
Message(source, sequence_number, data) ==
    [source |-> source, sequence_number |-> sequence_number, data |-> data]

\* DefaultHasher::new(): SipHash-1-3 under the keys 0 and 0, nothing written yet
DefaultHasher_new == [k0 |-> 0, k1 |-> 0, written |-> <<>>]

\* <Vec<u8> as Hash>::hash: writes the length of the bytes, then the bytes
hash(data, state) ==
    [state EXCEPT !.written = Append(@, [len |-> ByteLen(data), bytes |-> data])]

\* Hasher::finish: the hash of what was written, under the keys.  The value is
\* kept as the term it is a function of: hashes of equal terms are equal, and a
\* collision of two different terms is not represented
finish(state) == [siphash13 |-> <<state.k0, state.k1>>, of |-> state.written]

\* gossipsub::MessageId::from(s.finish().to_string())
MessageId(h) == [decimal |-> h]

\* the id function gossipsub has by default: the author and the sequence number
unique_message_fn_by_author(message) ==
    MessageId([siphash13 |-> <<0, 0>>,
               of |-> <<[len |-> message.source, bytes |-> <<>>],
                        [len |-> message.sequence_number, bytes |-> <<>>]>>])

\* lines 156-160: the message id function given to gossipsub
unique_message_fn(message) == MessageId(finish(hash(message.data, DefaultHasher_new)))

\* line 165: the gossipsub engine of a node that runs this code computes the id
\* of a message it receives or publishes and looks it up among the ids it has
\* seen; a message whose id it has seen is a duplicate and is not relayed
GossipsubSees(node, message) ==
    /\ phase = "running"
    /\ Len(id_log) < MaxIdCalls
    /\ LET id == unique_message_fn(message)
       IN  id_log' = Append(id_log,
               [node |-> node, message |-> message, id |-> id,
                duplicate |-> \E i \in DOMAIN id_log :
                                 id_log[i].node = node /\ id_log[i].id = id])
    /\ UNCHANGED <<configVars, buildVars, submitVars, eventVars, publish_log,
                   validations, conns, opened, external, identify_log, inbound_log,
                   lookups, announced, routing>>

\* line 313: `_ => {}`
OtherSwarmEvent ==
    /\ AtSelect
    /\ UNCHANGED vars

\* the loop's blocked send completes once the event channel has room
LoopResume ==
    /\ phase = "running"
    /\ pending # <<>>
    /\ consumer = "dropped" \/ Len(events) < EventCapacity
    /\ Handle(pending)
    /\ UNCHANGED <<configVars, buildVars, submitVars, publish_log, conns, opened,
                   external, identify_log, inbound_log, lookups, announced, routing, id_log>>

(***************************************************************************)
(* The host.                                                               *)
(***************************************************************************)
\* AtomicUsize arithmetic wraps modulo 2^64.  A counter is held by the
\* representative of its value that lies in -2^63 .. 2^63 - 1: a negative r
\* stands for the usize 2^64 + r, so that usize::MAX is -1.  The counts reached
\* here are far from 2^63, where the representation would have to wrap itself.
\* fetch_add and fetch_sub are given as the value they store
fetch_add(v, n) == v + n
fetch_sub(v, n) == v - n

\* the usize is not the difference of two counts: it wrapped below zero
Wrapped(v) == v < 0

\* metrics.rs, lines 23-37
increment_peers(m) == [m EXCEPT !.peers = fetch_add(@, 1)]
decrement_peers(m) == [m EXCEPT !.peers = fetch_sub(@, 1)]
increment_messages_received(m) == [m EXCEPT !.messages_received = fetch_add(@, 1)]
increment_messages_broadcasted(m) ==
    [m EXCEPT !.messages_broadcasted = fetch_add(@, 1)]

HostMatch_connections_only(m, event) ==
    IF event.kind = "PeerConnected" THEN increment_peers(m) ELSE m

\* main.rs, lines 143-182: what the arm of an event does to the metrics
HostMatch(m, event) ==
    CASE event.kind = "PeerConnected" -> increment_peers(m)
      [] event.kind = "PeerDisconnected" -> decrement_peers(m)
      [] event.kind = "MessageBroadcasted" -> increment_messages_broadcasted(m)
      [] event.kind = "MessageReceived" -> increment_messages_received(m)
      [] OTHER -> m

\* main.rs, lines 142-183: `events.recv().await` and the arm of the event received
ConsumerRecv ==
    /\ consumer = "alive"
    /\ events # <<>>
    /\ delivered' = Append(delivered, Head(events))
    /\ events' = Tail(events)
    /\ metrics' = HostMatch(metrics, Head(events))
    /\ UNCHANGED <<consumer, pending, discarded, reader, replies, wsVars, configVars,
                   buildVars, submitVars, swarmVars, routing>>

\* the fields of MetricsData, in the order get_metrics loads them
MetricsFields ==
    <<"peers", "messages_broadcasted", "messages_received", "total_connections">>

\* the MetricsData of four loaded values
MetricsData(loaded) ==
    [peers |-> loaded[1], messages_broadcasted |-> loaded[2],
     messages_received |-> loaded[3], total_connections |-> loaded[4]]

\* metrics.rs, lines 39-46, called by the metrics route (main.rs, lines 131-134)
\* beside the host's loop: one step is one of the four loads.
\* `at` notes how many events the host had handled when peers was loaded
get_metrics_load ==
    /\ phase = "running"
    /\ Len(replies) < MaxReads
    /\ LET field == MetricsFields[Len(reader.loaded) + 1]
           loaded == Append(reader.loaded, metrics[field])
           at == IF field = "peers" THEN Len(delivered) ELSE reader.at
       IN  IF Len(loaded) = Len(MetricsFields)
           THEN /\ replies' = Append(replies, [data |-> MetricsData(loaded), at |-> at])
                /\ reader' = NoCall
           ELSE /\ reader' = [loaded |-> loaded, at |-> at]
                /\ UNCHANGED replies
    /\ UNCHANGED <<metrics, wsVars, events, consumer, delivered, pending, discarded,
                   configVars, buildVars, submitVars, swarmVars, routing>>

(***************************************************************************)
(* The websocket relay, ws/channel.rs.                                     *)
(***************************************************************************)
\* everything but the relay
nodeVars ==
    <<configVars, buildVars, submitVars, swarmVars, routing, events, consumer,
      delivered, pending, discarded, metrics, reader, replies>>

\* struct Data; ts is an opaque string
Data(offer, ts) == [offer |-> offer, ts |-> ts]

\* the items the senders send
DataItems == {Data(Offer, "ts1"), Data(EmptyMessage, "ts2")}

\* json!({"offer": data.offer, "ts": data.ts}): an object of two members
json(data) == [object |-> <<[key |-> "offer", value |-> data.offer],
                            [key |-> "ts", value |-> data.ts]>>]

\* Value::to_string: the text of the value, one text per value
to_string(value) == [text_of |-> value]

\* WebSocket::send: the server takes the text and the call completes
server_send(log, text) == Append(log, text)

RECURSIVE Drain(_, _)
\* lines 24-34: `for data in buffer.drain(..)`, one server.send per item, in order
Drain(items, log) ==
    IF items = <<>> THEN log
    ELSE Drain(Tail(items), server_send(log, to_string(json(Head(items)))))

\* a Sender sends an item: it is buffered when the channel has room
WsSend(data) ==
    /\ ws_senders > 0
    /\ Len(ws_received) + Len(ws_channel) < MaxWsItems
    /\ Len(ws_channel) < WsCapacity
    /\ ws_channel' = Append(ws_channel, data)
    /\ UNCHANGED <<ws_senders, ws_pc, buffer, ws_received, ws_sent, ws_last, nodeVars>>

\* a Sender handle is dropped
WsSenderDrop ==
    /\ ws_senders > 0
    /\ ws_senders' = ws_senders - 1
    /\ UNCHANGED <<ws_channel, ws_pc, buffer, ws_received, ws_sent, ws_last, nodeVars>>

\* lines 20-22: `Some(data) = receiver.recv()`, the oldest item of the channel
TransmitRecv ==
    /\ ws_pc = "select"
    /\ ws_channel # <<>>
    /\ buffer' = Append(buffer, Head(ws_channel))
    /\ ws_received' = Append(ws_received, Head(ws_channel))
    /\ ws_channel' = Tail(ws_channel)
    /\ ws_last' = "recv"
    /\ UNCHANGED <<ws_senders, ws_pc, ws_sent, nodeVars>>

TransmitRecvNone_returns ==
    /\ ws_pc = "select"
    /\ ws_channel = <<>>
    /\ ws_senders = 0
    /\ ws_pc' = "returned"
    /\ UNCHANGED <<ws_channel, ws_senders, buffer, ws_received, ws_sent, ws_last,
                   nodeVars>>

\* line 20: with every Sender dropped and the channel empty recv gives None, which
\* does not match `Some(data)`: select! disables the branch and waits for the
\* other one
TransmitRecvNone ==
    /\ ws_pc = "select"
    /\ ws_channel = <<>>
    /\ ws_senders = 0
    /\ ws_pc' = "recv_disabled"
    /\ UNCHANGED <<ws_channel, ws_senders, buffer, ws_received, ws_sent, ws_last,
                   nodeVars>>

\* lines 23-34: `_ = interval.tick()`; then lines 35-37, `if false { break; }`,
\* and the loop selects again
TransmitTick ==
    /\ ws_pc \in {"select", "recv_disabled"}
    /\ ws_sent' = Drain(buffer, ws_sent)
    /\ buffer' = <<>>
    /\ ws_last' = "tick"
    /\ ws_pc' = "select"
    /\ UNCHANGED <<ws_channel, ws_senders, ws_received, nodeVars>>

Transmit ==
    \/ \E data \in DataItems : WsSend(data)
    \/ WsSenderDrop
    \/ TransmitRecv
    \/ TransmitRecvNone
    \/ TransmitTick

\* the host drops SplashContext.events: the channel closes, what it buffered is
\* freed, and a send that waits for room fails when the loop next runs
ConsumerDrop ==
    /\ phase = "running"
    /\ consumer = "alive"
    /\ consumer' = "dropped"
    /\ events' = <<>>
    /\ UNCHANGED <<delivered, pending, discarded, hostVars, configVars, buildVars,
                   submitVars, swarmVars, routing>>

(***************************************************************************)
(* Specifications.                                                         *)
(***************************************************************************)
\* lists of self-reported listen addresses
ListenAddrReports ==
    {<<>>} \cup {<<a>> : a \in ListenAddrs}
    \cup { <<LoopbackV4, PublicV4>>, <<Private10, PublicV6, LoopbackV6>>,
           <<PublicV4, Private192>>, <<RelayedPrivate, Public192>> }

Build ==
    \/ BuildResolve(DnsResults)
    \/ BuildBehaviour
    \/ BuildListen
    \/ BuildSpawn

Configure ==
    \/ \E peers \in BootstrapLists : with_known_peers(peers)
    \/ \E addrs \in ListenLists : with_listen_addresses(addrs)
    \/ with_testnet

Submit ==
    \/ \E p \in Producers, m \in Strings : broadcast_message(p, m, MaxCalls)
    \/ \E p \in Producers : broadcast_message_resume(p)

Clones ==
    \/ Clone
    \/ \E c \in DOMAIN clones : clone_with_testnet(c)
    \/ \E c \in DOMAIN clones, peers \in BootstrapLists : clone_with_known_peers(c, peers)
    \/ \E c \in DOMAIN clones : clone_build(c, DnsResults)
    \/ \E c \in DOMAIN clones, p \in Producers, m \in Strings :
          clone_broadcast_message(c, p, m, MaxCalls)

Loop ==
    \/ LoopSubmission(PublishOutcomes)
    \/ LoopDiscoveryTick
    \/ \E peer \in RemotePeers : ConnectionEstablished(peer)
    \/ \E peer \in RemotePeers : ConnectionClosed(peer)
    \/ \E source \in RemotePeers, data \in InboundPayloads : GossipsubMessage(source, data)
    \/ \E peer \in RemotePeers, addrs \in ListenAddrReports, observed \in ObservedAddrs :
          IdentifyReceived(peer, addrs, observed)
    \/ NewListenAddr
    \/ \E node \in {LocalPeer} \cup RemotePeers, source \in RemotePeers,
          sequence_number \in SequenceNumbers, data \in InboundPayloads :
          GossipsubSees(node, Message(source, sequence_number, data))
    \/ OtherSwarmEvent
    \/ LoopResume

\* the whole system
Next ==
    \/ Configure \/ Build \/ Clones \/ Submit \/ Loop
    \/ ConsumerRecv \/ ConsumerDrop \/ get_metrics_load
    \/ Transmit

Spec == Init /\ [][Next]_vars

\* the resolver's answer in the specifications that are not about startup
SeedPeers == <<PublicV4 \o <<P2p(1)>>>>

\* the payload of the k-th call of a burst: k bytes
BurstPayload(k) == <<Chunk("a", k)>>

\* message relay: startup from the resolver's seed, submissions of every kind,
\* inbound messages and connections, a consuming host
NextRelay ==
    \/ BuildResolve({DnsOk(SeedPeers)})
    \/ BuildBehaviour
    \/ BuildListen
    \/ BuildSpawn
    \/ \E p \in Producers, m \in Strings : broadcast_message(p, m, MaxCalls)
    \/ LoopSubmission(PublishOutcomes)
    \/ \E data \in InboundPayloads : GossipsubMessage(1, data)
    \/ ConsumerRecv

SpecRelay == Init /\ [][NextRelay]_vars

\* submissions to a loop that runs: tokio's select polls its ready branches in
\* random order, so no ready branch waits for ever, and the host's loop
\* (main.rs, line 142) receives whenever an event is buffered
NextRelayLive ==
    \/ BuildResolve({DnsOk(SeedPeers)})
    \/ BuildBehaviour
    \/ BuildListen
    \/ BuildSpawn
    \/ \E m \in Strings : broadcast_message(1, m, MaxCalls)
    \/ LoopSubmission(PublishOutcomes)
    \/ ConsumerRecv

SpecRelayLive ==
    /\ Init /\ [][NextRelayLive]_vars
    /\ WF_vars(LoopSubmission(PublishOutcomes))
    /\ WF_vars(ConsumerRecv)

\* startup and the routing table: every configuration, every resolver result,
\* identify reports
NextAddr ==
    \/ Configure
    \/ Build
    \/ \E peer \in RemotePeers, addrs \in ListenAddrReports, observed \in ObservedAddrs :
          IdentifyReceived(peer, addrs, observed)
    \/ NewListenAddr
    \/ ConsumerRecv

SpecAddr == Init /\ [][NextAddr]_vars

\* a burst of submissions that fills the submission queue.  The host is slow: it
\* receives an event only when the loop is blocked on the full event channel.
\* The k-th call submits k bytes, so that every payload differs, and only the
\* first MaxBurstFailures publishes may fail
NextBurst ==
    \/ BuildResolve({DnsOk(SeedPeers)})
    \/ BuildBehaviour
    \/ BuildListen
    \/ BuildSpawn
    \/ \E p \in Producers :
          broadcast_message(p, BurstPayload(Len(call_log) + 1), MaxBurstCalls)
    \/ \E p \in Producers : broadcast_message_resume(p)
    \/ LoopSubmission(IF Len(publish_log) < MaxBurstFailures
                      THEN PublishOutcomes ELSE {"Ok"})
    \/ pending # <<>> /\ ConsumerRecv
    \/ LoopResume

SpecBurst == Init /\ [][NextBurst]_vars

\* a node without peers and a slow host: one producer submits its next payload
\* once the loop took the last one, every publish fails for want of peers, and
\* the host receives an event only when the loop is blocked on the full event
\* channel; the listeners are announced late, when the channel is about to fill
NextStall ==
    \/ BuildResolve({DnsOk(SeedPeers)})
    \/ BuildBehaviour
    \/ BuildListen
    \/ BuildSpawn
    \/ queue = <<>> /\ broadcast_message(1, BurstPayload(Len(call_log) + 1), MaxStallCalls)
    \/ LoopSubmission(PublishErrors)
    \/ LoopDiscoveryTick
    \/ Len(events) >= EventCapacity - 2 /\ NewListenAddr
    \/ LoopResume
    \/ pending # <<>> /\ ConsumerRecv

SpecStall == Init /\ [][NextStall]_vars

\* the same node with a host that gives up: it drops the event receiver right
\* after startup or once the loop is blocked on the full event channel; after
\* that, listeners are announced, peers are heard and the timer ticks
NextDrop ==
    \/ BuildResolve({DnsOk(SeedPeers)})
    \/ BuildBehaviour
    \/ BuildListen
    \/ BuildSpawn
    \/ queue = <<>> /\ broadcast_message(1, BurstPayload(Len(call_log) + 1), MaxStallCalls)
    \/ LoopSubmission(PublishErrors)
    \/ LoopResume
    \/ pending # <<>> /\ ConsumerRecv
    \/ (publish_log = <<>> \/ pending # <<>>) /\ ConsumerDrop
    \/ consumer = "dropped" /\ LoopDiscoveryTick
    \/ consumer = "dropped" /\ NewListenAddr
    \/ consumer = "dropped" /\ \E data \in {Offer, InvalidOverThird} : GossipsubMessage(1, data)
    \/ consumer = "dropped" /\ IdentifyReceived(1, <<LoopbackV4, PublicV6>>, PublicV4)

SpecDrop == Init /\ [][NextDrop]_vars

\* bootstrap lists given to a clone
CloneLists == { <<PublicV4>>, <<PublicV4 \o <<P2p(LocalPeer)>>>> }

\* a node and its clones: the node is configured and built from the resolver's
\* seed and submits once it runs; clones are taken before or after the build,
\* reconfigured, submitted through at any time and built
NextClone ==
    \/ with_testnet
    \/ BuildResolve({DnsOk(SeedPeers)})
    \/ BuildBehaviour
    \/ BuildListen
    \/ BuildSpawn
    \/ Clone
    \/ \E c \in DOMAIN clones : clone_with_testnet(c)
    \/ \E c \in DOMAIN clones, peers \in CloneLists : clone_with_known_peers(c, peers)
    \/ \E c \in DOMAIN clones : clone_build(c, {DnsErr, DnsOk(SeedPeers)})
    \/ \E c \in DOMAIN clones : clone_broadcast_message(c, 2, Offer, MaxCalls)
    \/ phase = "running" /\ broadcast_message(1, EmptyMessage, MaxCalls)
    \/ LoopSubmission({"Ok"})
    \/ ConsumerRecv

SpecClone == Init /\ [][NextClone]_vars

\* message identities: running nodes see messages of several authors, sequence
\* numbers and payloads, at this node and at another
NextIds ==
    \/ BuildResolve({DnsOk(SeedPeers)})
    \/ BuildBehaviour
    \/ BuildListen
    \/ BuildSpawn
    \/ \E node \in {LocalPeer, 1}, source \in RemotePeers,
          sequence_number \in SequenceNumbers, data \in {Offer, AtLimit, InvalidByte} :
          GossipsubSees(node, Message(source, sequence_number, data))

SpecIds == Init /\ [][NextIds]_vars

\* the event stream: a node built from the resolver's seed emits events of every
\* kind to a host that receives them.  A peer connects once the listeners are
\* announced, and a message arrives from a peer that is connected
NextEvents ==
    \/ BuildResolve({DnsOk(SeedPeers)})
    \/ BuildBehaviour
    \/ BuildListen
    \/ BuildSpawn
    \/ broadcast_message(1, Offer, MaxEventCalls)
    \/ LoopSubmission(PublishOutcomes)
    \/ announced = Len(listeners) /\ ConnectionEstablished(1)
    \/ ConnectionClosed(1)
    \/ conns[1] > 0 /\ GossipsubMessage(1, Offer)
    \/ NewListenAddr
    \/ ConsumerRecv

SpecEvents == Init /\ [][NextEvents]_vars

\* the host's counters: peers connect and leave, a connected peer delivers a
\* message, the host handles the events while the metrics route is called.
\* A peer holds one connection at a time, and peer 2 joins while peer 1 is
\* connected; either may leave first
NextMetrics ==
    \/ BuildResolve({DnsOk(SeedPeers)})
    \/ BuildBehaviour
    \/ BuildListen
    \/ BuildSpawn
    \/ \E peer \in RemotePeers :
          /\ peer = 1 \/ conns[1] > 0
          /\ conns[peer] = 0
          /\ ConnectionEstablishedUpTo(peer, MaxMetricConnections)
    \/ conns[1] > 0 /\ GossipsubMessage(1, Offer)
    \/ \E peer \in RemotePeers : ConnectionClosed(peer)
    \/ ConsumerRecv
    \/ get_metrics_load

SpecMetrics == Init /\ [][NextMetrics]_vars

\* the websocket relay alone.  The interval fires every 300 ms and select!
\* picks among the ready branches at random, so a tick that stays possible is
\* taken
SpecTransmit == Init /\ [][Transmit]_vars /\ WF_vars(TransmitTick)

(***************************************************************************)
(* Properties.                                                             *)
(***************************************************************************)
\* the node event stream: what the host received, then what the channel holds
Emitted == delivered \o events

\* the events the loop's blocked handler has still to send
PendingEvents ==
    LET emits == SelectSeq(pending, LAMBDA o : o.op = "emit")
    IN  [i \in DOMAIN emits |-> emits[i].ev]

IsOutcome(e) == e.kind \in {"MessageBroadcasted", "MessageBroadcastFailed"}
IsBroadcasted(e) == e.kind = "MessageBroadcasted"
IsFailed(e) == e.kind = "MessageBroadcastFailed"
IsReceived(e) == e.kind = "MessageReceived"

TooLarge(bytes) == ByteLen(bytes) > 300 * 1024

\* C1: once the loop is back at its select, the outcome events of the stream are,
\* in order, one per published payload: MessageBroadcastFailed with the reason
\* where the publish failed, MessageBroadcasted with the text where it succeeded.
C1_OneOutcomePerPayload ==
    pending = <<>> =>
        LET outcomes == SelectSeq(Emitted, IsOutcome)
        IN  /\ Len(outcomes) = Len(publish_log)
            /\ \A i \in DOMAIN outcomes :
                 IF publish_log[i].result = "Ok"
                 THEN /\ outcomes[i].kind = "MessageBroadcasted"
                      /\ outcomes[i].text = from_utf8_lossy(publish_log[i].data)
                 ELSE /\ outcomes[i].kind = "MessageBroadcastFailed"
                      /\ outcomes[i].error = publish_log[i].result

\* C2: a broadcast_message call with a message of more than 300 * 1024 bytes
\* returns MessageTooLarge without suspending and changes neither the submission
\* queue nor the event stream, and nothing of that size is ever enqueued,
\* published or reported as broadcast.
C2_TooLargeIsRejectedUntouched ==
    /\ [][(/\ Len(call_log') = Len(call_log) + 1
           /\ TooLarge(call_log'[Len(call_log')].msg))
          => /\ call_log'[Len(call_log')].ret = "MessageTooLarge"
             /\ ~call_log'[Len(call_log')].suspended
             /\ UNCHANGED <<queue, waiters, prod, enqueued, events, delivered, pending,
                            publish_log>>]_vars
    /\ [](/\ \A i \in DOMAIN enqueued : ~TooLarge(enqueued[i])
          /\ \A i \in DOMAIN publish_log : ~TooLarge(publish_log[i].data)
          /\ \A i \in DOMAIN Emitted :
                IsBroadcasted(Emitted[i]) => ~TooLarge(Emitted[i].text))

\* a too large message was refused while the queue held a payload
C2_Witness ==
    /\ queue # <<>>
    /\ call_log # <<>>
    /\ TooLarge(call_log[Len(call_log)].msg)
    /\ call_log[Len(call_log)].ret = "MessageTooLarge"

\* C3: validation fails with MessageTooLarge exactly for the texts of more than
\* 300 * 1024 bytes, and with nothing else: a broadcast_message call returns
\* MessageTooLarge exactly then and never InvalidMessageFormat, and an inbound
\* message is rejected exactly when its decoded text is that long.
C3_ValidationIsTheSizeCheck ==
    /\ \A i \in DOMAIN call_log :
         /\ call_log[i].ret = "MessageTooLarge" <=> TooLarge(call_log[i].msg)
         /\ call_log[i].ret \in {"Ok", "Pending", "SendError", "MessageTooLarge"}
    /\ \A i \in DOMAIN validations :
         validations[i].acceptance = "Reject"
            <=> TooLarge(from_utf8_lossy(validations[i].data))

\* a message of exactly the limit was accepted and one a byte longer refused
C3_Witness ==
    /\ \E i \in DOMAIN call_log :
          ByteLen(call_log[i].msg) = 300 * 1024 /\ call_log[i].ret = "Ok"
    /\ \E i \in DOMAIN call_log :
          ByteLen(call_log[i].msg) = 300 * 1024 + 1 /\ call_log[i].ret = "MessageTooLarge"

\* C4: the submission queue never holds more than 100 payloads; a valid call
\* never returns an error, it returns Ok or is suspended; a producer is suspended
\* only while the queue has no room, each suspended call belongs to a producer
\* still in send, and a call that was suspended has returned Ok only after the
\* loop dequeued a payload and pushed exactly its own payload.
C4_FullQueueSuspends ==
    /\ Len(queue) <= 100
    /\ \A i \in DOMAIN call_log :
         /\ ~TooLarge(call_log[i].msg) => call_log[i].ret \in {"Ok", "Pending"}
         /\ call_log[i].ret = "Pending" =>
              /\ call_log[i].suspended
              /\ \E p \in Producers :
                   /\ prod[p].pc \in {"waiting", "granted"}
                   /\ prod[p].call = i
                   /\ prod[p].msg = call_log[i].msg
         /\ (call_log[i].suspended /\ call_log[i].ret = "Ok") =>
              /\ publish_log # <<>>
              /\ \E k \in DOMAIN enqueued : enqueued[k] = call_log[i].msg
    /\ \A p \in Producers :
         /\ prod[p].pc = "waiting" =>
              Len(queue) + Cardinality({q \in Producers : prod[q].pc = "granted"}) = 100
         /\ prod[p].pc # "idle" => call_log[prod[p].call].ret = "Pending"
    /\ Cardinality({i \in DOMAIN call_log : call_log[i].ret = "Ok"}) = Len(enqueued)

\* the 101st call was suspended by the full queue and has returned Ok
C4_Witness ==
    \E i \in DOMAIN call_log :
        /\ i > 100
        /\ call_log[i].suspended
        /\ call_log[i].ret = "Ok"
        /\ Len(queue) = 100

\* how many of the first n elements of s satisfy Test
CountBefore(s, n, Test(_)) == Len(SelectSeq(SubSeq(s, 1, n), Test))

\* C5: the payloads published, followed by those still queued, are the payloads
\* enqueued, in order; the MessageBroadcasted events carry the texts of the
\* published payloads in publishing order; the MessageBroadcastFailed events carry
\* the reasons of the failed publishes in order, each after the events of all
\* earlier payloads and before those of all later ones.
C5_RelayedInSubmissionOrder ==
    LET stream == Emitted \o PendingEvents
        done == SelectSeq(stream, IsBroadcasted)
        failed == SelectSeq(stream, IsFailed)
        failures == SelectSeq(publish_log, LAMBDA r : r.result # "Ok")
    IN  /\ [i \in DOMAIN publish_log |-> publish_log[i].data] \o queue = enqueued
        /\ Len(done) = Len(publish_log)
        /\ \A i \in DOMAIN done : done[i].text = publish_log[i].data
        /\ Len(failed) = Len(failures)
        /\ \A i \in DOMAIN failed : failed[i].error = failures[i].result
        /\ \A n \in DOMAIN stream :
             IsFailed(stream[n]) =>
                LET j == CountBefore(stream, n, IsFailed)
                    k == CountBefore(stream, n, IsBroadcasted) + 1
                IN  /\ k \in DOMAIN publish_log
                    /\ publish_log[k] = failures[j]
                    /\ CountBefore(publish_log, k, LAMBDA r : r.result # "Ok") = j

\* a payload whose producer was suspended was published after the hundred before
\* it, one publish failed, and the stream holds both outcomes
C5_Witness ==
    /\ \E i \in DOMAIN call_log :
          /\ call_log[i].suspended
          /\ \E k \in DOMAIN publish_log :
                k > 100 /\ publish_log[k].data = call_log[i].msg
    /\ \E k \in DOMAIN publish_log : publish_log[k].result # "Ok"
    /\ pending = <<>>

\* C6: once the loop is back at its select, the validation results reported to
\* gossipsub are, in order, one per inbound message, for that message and its
\* source, and the MessageReceived events of the stream are, in order, the decoded
\* texts of the messages reported Accept: none for a message reported Reject.
C6_OneReportPerInboundMessage ==
    pending = <<>> =>
        LET received == SelectSeq(Emitted, IsReceived)
            accepted == SelectSeq(validations, LAMBDA v : v.acceptance = "Accept")
        IN  /\ Len(validations) = Len(inbound_log)
            /\ \A i \in DOMAIN validations :
                 /\ validations[i].data = inbound_log[i].data
                 /\ validations[i].source = inbound_log[i].source
                 /\ validations[i].acceptance \in {"Accept", "Reject"}
            /\ Len(received) = Len(accepted)
            /\ \A i \in DOMAIN received :
                 received[i].text = from_utf8_lossy(accepted[i].data)

\* an inbound message was reported Reject and the stream holds no MessageReceived
C6_Witness ==
    /\ pending = <<>>
    /\ \E i \in DOMAIN validations : validations[i].acceptance = "Reject"
    /\ SelectSeq(Emitted, IsReceived) = <<>>

\* C7: an inbound message is reported Accept exactly when its raw payload has at
\* most 300 * 1024 bytes, valid UTF-8 or not.
C7_AcceptedByRawLength ==
    \A i \in DOMAIN validations :
        validations[i].acceptance = "Accept" <=> ~TooLarge(validations[i].data)

\* the address classes the filter is to exclude, by their ranges
Ip4LoopbackOrPrivate(o) ==
    \/ o[1] = 127
    \/ o[1] = 10
    \/ o[1] = 172 /\ o[2] \in 16 .. 31
    \/ o[1] = 192 /\ o[2] = 168

HasNonGlobalComponent(addr) ==
    \E i \in DOMAIN addr :
        \/ addr[i].p = "Ip4" /\ Ip4LoopbackOrPrivate(addr[i].a)
        \/ addr[i].p = "Ip6" /\ addr[i].a = <<0, 0, 0, 0, 0, 0, 0, 1>>

\* the routing entries of the bootstrap seeding: every bootstrap address against
\* the peer id it ends in, but for the local peer id 0, which no table holds
BootstrapEntries ==
    {[peer |-> LastPeerId(known_peers[i]), addr |-> known_peers[i]] :
        i \in {j \in DOMAIN known_peers :
                 /\ EndsInPeerId(known_peers[j])
                 /\ LastPeerId(known_peers[j]) # 0}}

\* C8: every address in the routing table is globally routable.
C8_RoutingTableIsGlobal ==
    \A e \in routing : ~HasNonGlobalComponent(e.addr)

\* C8, amended: every address in the routing table that is not globally routable
\* is a bootstrap address, registered against its own peer id; every address
\* registered from an identify report is globally routable.
C8_OnlyBootstrapMayBeNonGlobal ==
    \A e \in routing : HasNonGlobalComponent(e.addr) => e \in BootstrapEntries

\* the table holds a private bootstrap address and an address of an identify
\* report whose other address was excluded
C8_Witness ==
    /\ \E e \in routing : HasNonGlobalComponent(e.addr)
    /\ \E i \in DOMAIN identify_log :
          /\ \E k \in DOMAIN identify_log[i].listen_addrs :
                HasNonGlobalComponent(identify_log[i].listen_addrs[k])
          /\ \E k \in DOMAIN identify_log[i].listen_addrs :
                [peer |-> identify_log[i].peer, addr |-> identify_log[i].listen_addrs[k]]
                    \in routing

\* what the identify reports handled so far are to have registered
IdentifyEntries ==
    UNION {{[peer |-> identify_log[i].peer, addr |-> identify_log[i].listen_addrs[k]] :
               k \in {n \in DOMAIN identify_log[i].listen_addrs :
                         ~HasNonGlobalComponent(identify_log[i].listen_addrs[n])}} :
           i \in DOMAIN identify_log}

\* C9: in a running node the routing table holds, beside the bootstrap entries,
\* exactly the reported listen addresses that have no IPv4 loopback, IPv4 private
\* or IPv6 loopback component, each against the peer that reported it, wherever
\* the address stood in its report.
C9_RegisteredIffGlobal ==
    phase = "running" => routing = BootstrapEntries \cup IdentifyEntries

\* a report of a loopback address followed by a public one registered the second
C9_Witness ==
    \E i \in DOMAIN identify_log :
        /\ Len(identify_log[i].listen_addrs) >= 2
        /\ HasNonGlobalComponent(identify_log[i].listen_addrs[1])
        /\ [peer |-> identify_log[i].peer, addr |-> identify_log[i].listen_addrs[2]]
              \in routing

\* C10: once build is past the seeding with a bootstrap address that does not end
\* in a peer id, it has failed with that error, and no listen_on call was made, no
\* topic subscribed, no loop spawned and no event sent or delivered.
C10_UnidentifiedBootstrapFailsEarly ==
    (/\ phase \notin {"new", "resolved"}
     /\ \E i \in DOMAIN known_peers : ~EndsInPeerId(known_peers[i]))
    => /\ phase = "failed"
       /\ build_error = "Expect peer multiaddr to contain peer ID."
       /\ listeners = <<>>
       /\ topic = ""
       /\ receiver # "loop"
       /\ events = <<>>
       /\ delivered = <<>>

\* build failed on a resolved list whose second address has no peer id
C10_Witness ==
    /\ phase = "failed"
    /\ dns_calls = 1
    /\ Len(known_peers) = 2
    /\ EndsInPeerId(known_peers[1])
    /\ ~EndsInPeerId(known_peers[2])

\* C11: build never terminates abnormally: whatever the configuration and the
\* resolver's result, a build that has ended returned Ok with a running loop or
\* returned Err with an error value.
C11_BuildNeverPanics ==
    /\ phase # "panicked"
    /\ phase = "failed" <=> build_error # ""
    /\ phase \in {"new", "resolved", "swarm", "listening", "running", "failed"}

\* the broadcast_message calls that returned Ok, in the order of the calls
OkCalls == SelectSeq(call_log, LAMBDA c : c.ret = "Ok")

\* the MessageBroadcasted events the host has received
Observed == SelectSeq(delivered, IsBroadcasted)

\* C12: while the loop runs, the n-th call of broadcast_message that returned Ok
\* leads to the host receiving an n-th MessageBroadcasted event whose text is
\* the string that call was given, byte for byte.
C12_AcceptedIsEventuallyBroadcasted ==
    \A n \in 1 .. MaxCalls :
        (phase = "running" /\ Len(OkCalls) >= n)
            ~> (Len(Observed) >= n /\ Observed[n].text = OkCalls[n].msg)

\* the host received the MessageBroadcasted event of a text that holds the
\* character U+FFFD, and of a payload whose publish failed
C12_Witness ==
    /\ phase = "running"
    /\ \E n \in DOMAIN Observed :
          /\ Observed[n].text = OkCalls[n].msg
          /\ OkCalls[n].msg = AtLimitWithReplacementChar
    /\ \E n \in DOMAIN Observed :
          /\ Observed[n].text = OkCalls[n].msg
          /\ publish_log[n].result # "Ok"

\* the loop-side effects: what only a handler of the loop changes
loopEffects == <<publish_log, lookups, inbound_log, identify_log, validations,
                 announced, conns, opened, routing, external>>

\* the events the loop has sent or is blocked sending, counted from the histories
\* of the handlers that emit them
EventsDue ==
    (IF phase = "running" THEN 1 ELSE 0)
    + announced
    + Len(publish_log) + Len(SelectSeq(publish_log, LAMBDA r : r.result # "Ok"))
    + Len(SelectSeq(validations, LAMBDA v : v.acceptance = "Accept"))
    + Len(SelectSeq(pending, LAMBDA o : o.op = "report" /\ o.acceptance = "Accept"))
    + opened + (opened - (conns[1] + conns[2]))

\* C13: the event channel never holds more than 100 events.  At 100 events a
\* handler that emits blocks with its event unsent, and while the loop is blocked
\* it dequeues no submission, handles no swarm event and issues no lookup: only
\* the host's receive lets it go on.  While the host holds the receiver every
\* event emitted is received, buffered or waiting in the blocked send.
C13_FullEventChannelStallsTheLoop ==
    /\ [](Len(events) <= 100)
    /\ [][(consumer = "alive" /\ Len(events) = 100)
          => /\ (Len(publish_log') > Len(publish_log) \/ announced' > announced)
                => /\ pending' # <<>>
                   /\ events' = events
                   /\ delivered' = delivered
             /\ pending # <<>>
                => /\ UNCHANGED <<loopEffects, pending>>
                   /\ Len(queue') >= Len(queue)
                   /\ events' # events => /\ delivered' = Append(delivered, Head(events))
                                          /\ events' = Tail(events)]_vars
    /\ [](consumer = "alive" => Len(Emitted \o PendingEvents) = EventsDue)

\* the loop is blocked on the full channel while a submission waits in the queue
\* and a listener is still to be announced
C13_Witness ==
    /\ consumer = "alive"
    /\ Len(events) = 100
    /\ pending # <<>>
    /\ queue # <<>>
    /\ announced < Len(listeners)
    /\ lookups = 0

\* the routing entries an identify report is to add
ReportEntries(r) ==
    {[peer |-> r.peer, addr |-> r.listen_addrs[k]] :
        k \in {n \in DOMAIN r.listen_addrs : ~HasNonGlobalComponent(r.listen_addrs[n])}}

\* C14: once the host has dropped the event receiver nothing is buffered or
\* delivered any more and the loop does not block: a send that was waiting fails
\* and its handler ends, and every later handler runs to its end.  The loop still
\* takes the oldest queued payload and publishes it, still reports Accept or
\* Reject for an inbound message by the size of its text, still registers the
\* filtered addresses of an identify report and marks the observed address, and
\* the timer still issues lookups; each event of these handlers is discarded.
C14_DroppedConsumerDoesNotStopTheLoop ==
    /\ [](consumer = "dropped" => events = <<>>)
    /\ []((consumer = "dropped" /\ pending # <<>>) => ENABLED LoopResume)
    /\ []((consumer = "dropped" /\ pending = <<>> /\ queue # <<>>)
            => ENABLED LoopSubmission(PublishErrors))
    /\ []((consumer = "dropped" /\ pending = <<>> /\ lookups < MaxTicks)
            => ENABLED LoopDiscoveryTick)
    /\ [][consumer = "dropped"
          => /\ consumer' = "dropped"
             /\ delivered' = delivered
             /\ pending' = <<>> \/ UNCHANGED <<pending, loopEffects, discarded>>
             /\ pending # <<>> /\ pending' = <<>>
                => discarded' = discarded + Len(PendingEvents)
             /\ Len(publish_log') > Len(publish_log)
                => /\ queue # <<>>
                   /\ queue' = Tail(queue)
                   /\ Len(publish_log') = Len(publish_log) + 1
                   /\ publish_log'[Len(publish_log')].data = Head(queue)
                   /\ discarded' = discarded +
                        (IF publish_log'[Len(publish_log')].result = "Ok" THEN 1 ELSE 2)
             /\ Len(inbound_log') > Len(inbound_log)
                => LET m == inbound_log'[Len(inbound_log')]
                       ok == ~TooLarge(from_utf8_lossy(m.data))
                   IN  /\ validations' = Append(validations,
                             [data |-> m.data, source |-> m.source,
                              acceptance |-> IF ok THEN "Accept" ELSE "Reject"])
                       /\ discarded' = discarded + (IF ok THEN 1 ELSE 0)
             /\ Len(identify_log') > Len(identify_log)
                => LET r == identify_log'[Len(identify_log')]
                   IN  /\ routing' = routing \cup ReportEntries(r)
                       /\ external' = external \cup {r.observed_addr}
                       /\ discarded' = discarded
             /\ announced' > announced => discarded' = discarded + 1]_vars

\* after the host dropped the receiver while the loop was blocked on the full
\* channel, the loop published a payload, accepted and rejected inbound messages,
\* registered an address, announced a listener and issued a lookup
C14_Witness ==
    /\ consumer = "dropped"
    /\ pending = <<>>
    /\ Len(delivered) > 0
    /\ Len(SelectSeq(delivered, IsBroadcasted)) + 1 < Len(publish_log)
    /\ discarded > 4
    /\ lookups > 0
    /\ announced > 0
    /\ \E e \in routing : e.addr = PublicV6
    /\ \E i \in DOMAIN validations : validations[i].acceptance = "Reject"

\* C15: build calls the resolver exactly when it starts with an empty bootstrap
\* list, once, before the swarm exists; a configured list is kept as it is and is
\* what the routing table is seeded with.  When the resolver fails build has
\* failed with that error for good: no second call, no listener, no topic, no
\* loop, no event.
C15_ResolverOnlyForEmptyList ==
    /\ [](dns_calls <= 1)
    /\ [][dns_calls' # dns_calls
          => /\ phase = "new"
             /\ known_peers = <<>>
             /\ dns_calls' = dns_calls + 1
             /\ routing = {} /\ kad_protocol = "" /\ id_protocol = ""
             /\ listeners = <<>>]_vars
    /\ [][(phase = "new" /\ phase' # "new")
          => IF known_peers = <<>>
             THEN dns_calls' = dns_calls + 1
             ELSE dns_calls' = dns_calls /\ known_peers' = known_peers]_vars
    /\ [][phase # "new" => known_peers' = known_peers]_vars
    /\ [](build_error = "Failed to resolve peers from DNS"
            => /\ phase = "failed"
               /\ dns_calls = 1
               /\ known_peers = <<>>
               /\ routing = {} /\ kad_protocol = ""
               /\ listeners = <<>>
               /\ topic = ""
               /\ receiver # "loop"
               /\ events = <<>> /\ delivered = <<>>)
    /\ [][phase = "failed" => phase' = "failed" /\ dns_calls' = dns_calls]_vars
    /\ []((dns_calls = 0 /\ phase \in {"swarm", "listening"})
            => routing = BootstrapEntries)
    /\ []((dns_calls = 0 /\ phase = "running") => BootstrapEntries \subseteq routing)

\* a node configured with two bootstrap addresses runs without a resolver call,
\* its table seeded with both
C15_Witness ==
    /\ phase = "running"
    /\ dns_calls = 0
    /\ Len(known_peers) = 2
    /\ Cardinality(routing) = 2
    /\ routing = BootstrapEntries

\* C16: the namespace is "splash" unless with_testnet made it "splash-testnet"
\* before the build; the DHT and identify protocol names, once set, and the
\* topic, once subscribed, are /{namespace}/kad/1, /{namespace}/id/1 and
\* /{namespace}/messages/1 for that one namespace, a running node has all three,
\* and no later step changes any of them, whatever is done to a clone.
C16_NamesFollowTheNamespace ==
    /\ network_name = "splash"
    /\ [][network_name' # network_name
          => phase = "new" /\ network_name' = "splash-testnet"]_vars
    /\ [](LET ns == IF network_name = "splash" THEN "/splash" ELSE "/splash-testnet"
          IN  /\ network_name \in {"splash", "splash-testnet"}
              /\ kad_protocol \in {"", ns \o "/kad/1"}
              /\ id_protocol \in {"", ns \o "/id/1"}
              /\ topic \in {"", ns \o "/messages/1"}
              /\ phase = "running" => kad_protocol # "" /\ id_protocol # "" /\ topic # "")
    /\ [][/\ kad_protocol # "" => kad_protocol' = kad_protocol
          /\ id_protocol # "" => id_protocol' = id_protocol
          /\ topic # "" => topic' = topic]_vars

\* a node built on the default namespace runs beside a clone that was switched
\* to the test network
C16_Witness ==
    /\ phase = "running"
    /\ topic = "/splash/messages/1"
    /\ kad_protocol = "/splash/kad/1"
    /\ id_protocol = "/splash/id/1"
    /\ \E c \in DOMAIN clones : clones[c].network_name = "splash-testnet"

\* C17: the handling of an identify report adds the address the peer observed to
\* the node's external addresses whatever the report's listen addresses are,
\* sends and delivers no event, leaves the loop at its select and leaves the
\* submission queue, its producers and the calls' results as they are; so the
\* external addresses are the observed addresses of all the reports handled.
C17_ObservedAddressAlwaysConfirmed ==
    /\ [][Len(identify_log') > Len(identify_log)
          => /\ external' = external \cup {identify_log'[Len(identify_log')].observed_addr}
             /\ UNCHANGED <<events, delivered, pending, discarded>>
             /\ UNCHANGED <<queue, waiters, prod, call_log, enqueued, receiver>>
             /\ UNCHANGED <<publish_log, validations>>]_vars
    /\ [](external = {identify_log[i].observed_addr : i \in DOMAIN identify_log})

\* a report whose listen addresses were all excluded had its observed address,
\* a private one, confirmed
C17_Witness ==
    \E i \in DOMAIN identify_log :
        /\ identify_log[i].listen_addrs # <<>>
        /\ \A k \in DOMAIN identify_log[i].listen_addrs :
              HasNonGlobalComponent(identify_log[i].listen_addrs[k])
        /\ identify_log[i].observed_addr = Private10
        /\ Private10 \in external
        /\ routing = BootstrapEntries

\* C18: any two messages with the same bytes have the same id, whoever sent
\* them, whatever their sequence numbers, whenever and at whichever node the id
\* was computed; and a node that has seen a message takes a later message with
\* the same bytes for a duplicate.
C18_IdentityIsOfTheBytes ==
    /\ \A i, j \in DOMAIN id_log :
         id_log[i].message.data = id_log[j].message.data => id_log[i].id = id_log[j].id
    /\ \A j \in DOMAIN id_log :
         (\E i \in 1 .. j - 1 :
             /\ id_log[i].node = id_log[j].node
             /\ id_log[i].message.data = id_log[j].message.data)
         => id_log[j].duplicate

\* a node took for a duplicate a message with the bytes of an earlier one from
\* another author under another sequence number
C18_Witness ==
    \E i, j \in DOMAIN id_log :
        /\ i < j
        /\ id_log[i].node = id_log[j].node
        /\ id_log[i].message.data = id_log[j].message.data
        /\ id_log[i].message.source # id_log[j].message.source
        /\ id_log[i].message.sequence_number # id_log[j].message.sequence_number
        /\ id_log[j].duplicate

IsInitialized(e) == e.kind = "Initialized"

\* C19: no event exists before build succeeds; the step that completes build
\* finds the event channel empty, leaves Initialized with the local peer id as
\* its only event and does not wait; from then on the stream holds exactly one
\* Initialized event, and it is the first event of the stream, before every
\* event of any other kind.
C19_InitializedOnceAndFirst ==
    /\ [](phase # "running" => Emitted = <<>> /\ pending = <<>>)
    /\ [][(phase # "running" /\ phase' = "running")
          => /\ phase = "listening"
             /\ events = <<>> /\ delivered = <<>>
             /\ events' = <<[kind |-> "Initialized", peer |-> LocalPeer]>>
             /\ delivered' = <<>> /\ pending' = <<>>]_vars
    /\ [](phase = "running"
            => /\ Emitted # <<>>
               /\ Emitted[1] = [kind |-> "Initialized", peer |-> LocalPeer]
               /\ Len(SelectSeq(Emitted \o PendingEvents, IsInitialized)) = 1
               /\ \A i \in 2 .. Len(Emitted) :
                     Emitted[i].kind \in {"NewListenAddress", "PeerConnected",
                                          "PeerDisconnected", "MessageReceived",
                                          "MessageBroadcasted", "MessageBroadcastFailed"})

\* the host received Initialized first and then events of all six other kinds
C19_Witness ==
    /\ delivered # <<>>
    /\ delivered[1].kind = "Initialized"
    /\ \A k \in {"NewListenAddress", "PeerConnected", "PeerDisconnected",
                 "MessageReceived", "MessageBroadcasted", "MessageBroadcastFailed"} :
          \E i \in 2 .. Len(delivered) : delivered[i].kind = k

\* the errors build returns
BuildErrors ==
    {"Failed to resolve peers from DNS", "Expect peer multiaddr to contain peer ID.",
     "Multiaddr is not supported", "Submission receiver already consumed"}

PeersAfter(stream) ==
    Len(SelectSeq(stream, LAMBDA e : e.kind = "PeerConnected"))
    - Len(SelectSeq(stream, LAMBDA e : e.kind = "PeerDisconnected"))

\* the loads of the peers counter that get_metrics calls have made
PeersLoads ==
    {[value |-> replies[i].data.peers, at |-> replies[i].at] : i \in DOMAIN replies}
    \cup (IF reader.loaded = <<>> THEN {}
          ELSE {[value |-> reader.loaded[1], at |-> reader.at]})

\* C21: whatever part of the event stream the host has handled, the peers
\* counter is the number of PeerConnected events handled less the number of
\* PeerDisconnected events handled; no PeerDisconnected is handled while the
\* counter is zero, so the counter never wraps below zero; and what a get_metrics
\* call running beside the host loads from the counter is that number for the
\* events handled when it loads.
C21_PeersCountsOpenConnections ==
    /\ metrics.peers = PeersAfter(delivered)
    /\ ~Wrapped(metrics.peers)
    /\ \A n \in DOMAIN delivered :
          delivered[n].kind = "PeerDisconnected"
          => PeersAfter(SubSeq(delivered, 1, n - 1)) > 0
    /\ \A l \in PeersLoads :
          /\ l.value = PeersAfter(SubSeq(delivered, 1, l.at))
          /\ ~Wrapped(l.value)

\* the host has handled the connections and the disconnections of both peers
\* and a message between them, two connections were open at once, and a
\* get_metrics call loaded the counter while they were, before the host handled
\* the disconnections
C21_Witness ==
    /\ \E i, j \in DOMAIN delivered :
          /\ i < j
          /\ delivered[i] = PeerDisconnected(1)
          /\ delivered[j] = PeerDisconnected(2)
    /\ \E n \in DOMAIN delivered : delivered[n].kind = "MessageReceived"
    /\ metrics.peers = 0
    /\ metrics.messages_received = 1
    /\ Len(replies) = MaxReads
    /\ \E l \in PeersLoads : l.value = 2 /\ l.at < Len(delivered)

\* the texts transmit sends for a sequence of items
Texts(items) == [i \in DOMAIN items |-> to_string(json(items[i]))]

\* C22: the texts sent to the server followed by those of the items still in
\* `buffer` are the texts of the items received, in the order received: no item
\* is sent twice, out of order or lost.  An item received is put at the end of
\* `buffer` and nothing is sent at that step; texts are sent only at a tick,
\* and a tick sends the whole of `buffer` and empties it.  Every item received
\* is sent in the end.  transmit never returns: with every Sender dropped the
\* tick branch can still run, and what `buffer` holds then is flushed.
C22_TransmitForwardsAtTicks ==
    /\ [](ws_sent \o Texts(buffer) = Texts(ws_received))
    /\ [][ws_received' # ws_received
          => /\ ws_channel # <<>>
             /\ ws_received' = Append(ws_received, Head(ws_channel))
             /\ buffer' = Append(buffer, Head(ws_channel))
             /\ ws_sent' = ws_sent]_vars
    /\ [][ws_sent' # ws_sent
          => /\ ws_last' = "tick"
             /\ ws_sent' = ws_sent \o Texts(buffer)
             /\ buffer' = <<>>]_vars
    /\ [][buffer' # buffer /\ buffer' = <<>> => ws_last' = "tick"]_vars
    /\ \A n \in 1 .. MaxWsItems :
          (Len(ws_received) >= n)
            ~> (Len(ws_sent) >= n /\ ws_sent[n] = to_string(json(ws_received[n])))
    /\ [](ws_pc # "returned")
    /\ [](ws_senders = 0 => ENABLED TransmitTick)
    /\ (ws_senders = 0) ~> (ws_senders = 0 /\ buffer = <<>>)

\* every Sender is dropped; transmit found the channel closed and ticked on;
\* the three items sent have reached the server, two of them in one flush and
\* the last after the Senders were gone; the first and the last are the same item
C22_Witness ==
    /\ ws_senders = 0
    /\ ws_pc = "recv_disabled"
    /\ ws_last = "tick"
    /\ ws_channel = <<>>
    /\ buffer = <<>>
    /\ Len(ws_sent) = MaxWsItems
    /\ ws_sent = Texts(ws_received)
    /\ ws_received[1] = ws_received[3]
    /\ ws_received[1] # ws_received[2]


====
